---------------------------- MODULE Spec2Model ----------------------------
(***************************************************************************)
(* A model of Search_Engine.py: the tokenizer, the prefix trie, the        *)
(* inverted index, the ranking engine and the word segmenter.              *)
(*                                                                         *)
(* A Python str is modelled as a sequence of one-character strings, so     *)
(* that lowercasing, punctuation stripping, splitting, suffix tests and    *)
(* substring containment are computed character by character.              *)
(***************************************************************************)
EXTENDS Integers, Sequences, FiniteSets, TLC

\* ------------------------------------------------------------------------
\* Characters
\* ------------------------------------------------------------------------

UpperCase == <<"A","B","C","D","E","F","G","H","I","J","K","L","M",
               "N","O","P","Q","R","S","T","U","V","W","X","Y","Z">>

LowerCase == <<"a","b","c","d","e","f","g","h","i","j","k","l","m",
               "n","o","p","q","r","s","t","u","v","w","x","y","z">>

Digits == {"0","1","2","3","4","5","6","7","8","9"}

\* the characters the regular expression class \s matches (ASCII part)
Whitespace == {" ", "\t", "\n", "\r", "\f"}

Range(f) == {f[i] : i \in DOMAIN f}

\* ------------------------------------------------------------------------
\* Stopwords & Preprocessing
\* ------------------------------------------------------------------------

stopWords ==
    { <<"t","h","e">>, <<"i","s">>, <<"a","n","d">>, <<"a">>, <<"a","n">>,
      <<"i","n">>, <<"o","f">>, <<"o","n">>, <<"f","o","r">>,
      <<"w","i","t","h">>, <<"t","o">> }

\* str.lower() on one character
lower(c) ==
    IF \E k \in DOMAIN UpperCase : UpperCase[k] = c
    THEN LowerCase[CHOOSE k \in DOMAIN UpperCase : UpperCase[k] = c]
    ELSE c

to_lower(text) == [i \in 1..Len(text) |-> lower(text[i])]

\* the characters re.sub(r"[^a-zA-Z0-9\s]", "", text) keeps
kept(c) ==
    c \in Range(LowerCase) \cup Range(UpperCase) \cup Digits \cup Whitespace

remove_punctuation(text) == SelectSeq(text, kept)

\* word.endswith(suffix)
endswith(word, suffix) ==
    /\ Len(word) >= Len(suffix)
    /\ SubSeq(word, Len(word) - Len(suffix) + 1, Len(word)) = suffix

\* to_singular without its second rule (a trailing "s" is kept)
to_singular_ies_only(word) ==
    IF endswith(word, <<"i","e","s">>) /\ Len(word) > 3
    THEN Append(SubSeq(word, 1, Len(word) - 3), "y")
    ELSE word

to_singular(word) ==
    IF endswith(word, <<"i","e","s">>) /\ Len(word) > 3
    THEN Append(SubSeq(word, 1, Len(word) - 3), "y")
    ELSE IF endswith(word, <<"s">>) /\ Len(word) > 1
         THEN SubSeq(word, 1, Len(word) - 1)
         ELSE word

\* str.split(): the maximal runs of non-whitespace characters, in order.
\* cur is the run being read, acc the runs already closed.
RECURSIVE split_from(_, _, _, _)
split_from(text, i, cur, acc) ==
    IF i > Len(text)
    THEN IF cur = <<>> THEN acc ELSE Append(acc, cur)
    ELSE IF text[i] \in Whitespace
         THEN split_from(text, i + 1, <<>>,
                         IF cur = <<>> THEN acc ELSE Append(acc, cur))
         ELSE split_from(text, i + 1, Append(cur, text[i]), acc)

split(text) == split_from(text, 1, <<>>, <<>>)

\* tokenize's loop body without the stopword test
tokenize_word_unfiltered(tokens, token) ==
    LET singular == to_singular(token)
    IN  IF singular # token
        THEN Append(Append(tokens, token), singular)
        ELSE Append(tokens, token)

\* tokenize's loop body with the stopword test made on the singular form
tokenize_word_late_filter(tokens, token) ==
    LET singular == to_singular(token)
    IN  IF singular \notin stopWords
        THEN IF singular # token
             THEN Append(Append(tokens, token), singular)
             ELSE Append(tokens, token)
        ELSE tokens

\* tokenize's loop body without the derived singular
tokenize_word_surface_only(tokens, token) ==
    IF token \notin stopWords THEN Append(tokens, token) ELSE tokens

\* the body of tokenize's loop for one raw word, appended to tokens
tokenize_word(tokens, token) ==
    IF token \notin stopWords
    THEN LET singular == to_singular(token)
         IN  IF singular # token
             THEN Append(Append(tokens, token), singular)
             ELSE Append(tokens, token)
    ELSE tokens

RECURSIVE tokenize_loop(_, _, _)
tokenize_loop(words, k, tokens) ==
    IF k > Len(words) THEN tokens
    ELSE tokenize_loop(words, k + 1, tokenize_word(tokens, words[k]))

tokenize(content) ==
    LET cleaned == to_lower(remove_punctuation(content))
    IN  tokenize_loop(split(cleaned), 1, <<>>)

\* ------------------------------------------------------------------------
\* Trie
\* ------------------------------------------------------------------------
\* A trie is a function from node to [children, is_end_of_word].  A node is
\* named by the characters on the path from the root (each node has exactly
\* one parent edge); children lists the keys of the node's dict in insertion
\* order, and the child under key c of node n is the node Append(n, c).

TrieNode == [children |-> <<>>, is_end_of_word |-> FALSE]

root == <<>>

Trie == (root :> TrieNode)

RECURSIVE insert_from(_, _, _, _)
insert_from(t, node, word, k) ==
    IF k > Len(word)
    THEN [t EXCEPT ![node].is_end_of_word = TRUE]
    ELSE LET c     == word[k]
             child == Append(node, c)
             t2    == IF c \notin Range(t[node].children)
                      THEN (child :> TrieNode) @@
                           [t EXCEPT ![node].children = Append(@, c)]
                      ELSE t
         IN  insert_from(t2, child, word, k + 1)

Trie_insert(t, word) == insert_from(t, root, word, 1)

\* Trie.search answering whether the word is a path, not a terminal node
RECURSIVE search_from_path(_, _, _, _)
search_from_path(t, node, word, k) ==
    IF k > Len(word)
    THEN TRUE
    ELSE IF word[k] \notin Range(t[node].children)
         THEN FALSE
         ELSE search_from_path(t, Append(node, word[k]), word, k + 1)

RECURSIVE search_from(_, _, _, _)
search_from(t, node, word, k) ==
    IF k > Len(word)
    THEN t[node].is_end_of_word
    ELSE IF word[k] \notin Range(t[node].children)
         THEN FALSE
         ELSE search_from(t, Append(node, word[k]), word, k + 1)

Trie_search(t, word) == search_from(t, root, word, 1)

\* _find_suggestions: depth-first, children in dict order; find_children is
\* its for loop, from the k-th child on.
RECURSIVE find_suggestions(_, _, _, _)
RECURSIVE find_children(_, _, _, _, _)
find_suggestions(t, node, prefix, suggestions) ==
    find_children(t, node, prefix, 1,
                  IF t[node].is_end_of_word
                  THEN Append(suggestions, prefix)
                  ELSE suggestions)

find_children(t, node, prefix, k, suggestions) ==
    IF k > Len(t[node].children)
    THEN suggestions
    ELSE LET c == t[node].children[k]
         IN  find_children(t, node, prefix, k + 1,
                 find_suggestions(t, Append(node, c), Append(prefix, c),
                                  suggestions))

RECURSIVE autocomplete_from(_, _, _, _)
autocomplete_from(t, node, prefix, k) ==
    IF k > Len(prefix)
    THEN find_suggestions(t, node, prefix, <<>>)
    ELSE IF prefix[k] \notin Range(t[node].children)
         THEN <<>>
         ELSE autocomplete_from(t, Append(node, prefix[k]), prefix, k + 1)

Trie_autocomplete(t, prefix) == autocomplete_from(t, root, prefix, 1)

\* ------------------------------------------------------------------------
\* WebPage
\* ------------------------------------------------------------------------

\* a defaultdict(int): reading a missing key stores 0 under it
defaultdict_get(d, key) == IF key \in DOMAIN d THEN d ELSE (key :> 0) @@ d

\* TLC evaluates an argument only where it is first used, so a loop that
\* hands on a value it does not read nests one pending evaluation per step.
\* strict(v, e) is e, with v evaluated first.
strict(v, e) == IF v = v THEN e ELSE e

\* the constructor's loop from the k-th token on; returns the frequency map
\* and the trie
RECURSIVE WebPage_loop(_, _, _, _)
WebPage_loop(tokens, k, wordFrequency, t) ==
    IF k > Len(tokens)
    THEN [wordFrequency |-> wordFrequency, trie |-> t]
    ELSE LET token == tokens[k]
             wf    == defaultdict_get(wordFrequency, token)
             wf2   == [wf EXCEPT ![token] = @ + 1]
             t2    == Trie_insert(t, token)
         IN  strict(<<wf2, t2>>, WebPage_loop(tokens, k + 1, wf2, t2))

\* WebPage(url, content, trie): the new object and the trie it inserted into
WebPage(url, content, t) ==
    LET r == WebPage_loop(tokenize(content), 1, <<>>, t)
    IN  [page |-> [url |-> url, content |-> content,
                   wordFrequency |-> r.wordFrequency],
         trie |-> r.trie]

\* ------------------------------------------------------------------------
\* InvertedIndex
\* ------------------------------------------------------------------------
\* index is a defaultdict(set): a function from the tokens stored so far to
\* sets of page ids (0-based, as in the program).

\* InvertedIndex.add_page leaving out the last token
RECURSIVE InvertedIndex_add_page_loop_short(_, _, _, _)
InvertedIndex_add_page_loop_short(index, pageId, tokens, k) ==
    IF k >= Len(tokens) THEN index
    ELSE LET token == tokens[k]
             ix    == IF token \in DOMAIN index THEN index
                      ELSE (token :> {}) @@ index
         IN  InvertedIndex_add_page_loop_short(
                 [ix EXCEPT ![token] = @ \cup {pageId}], pageId, tokens, k + 1)

RECURSIVE InvertedIndex_add_page_loop(_, _, _, _)
InvertedIndex_add_page_loop(index, pageId, tokens, k) ==
    IF k > Len(tokens) THEN index
    ELSE LET token == tokens[k]
             ix    == IF token \in DOMAIN index THEN index
                      ELSE (token :> {}) @@ index
         IN  InvertedIndex_add_page_loop(
                 [ix EXCEPT ![token] = @ \cup {pageId}], pageId, tokens, k + 1)

InvertedIndex_add_page(index, pageId, tokens) ==
    InvertedIndex_add_page_loop(index, pageId, tokens, 1)

InvertedIndex_search(index, rawToken) ==
    LET token    == to_lower(rawToken)
        singular == to_singular(token)
    IN  (IF token \in DOMAIN index THEN index[token] ELSE {})
        \cup (IF singular \in DOMAIN index THEN index[singular] ELSE {})

\* ------------------------------------------------------------------------
\* SearchEngine
\* ------------------------------------------------------------------------
\* pages is the list self.pages; page id i is pages[i + 1].

SearchEngine_add_page(pages, index, page) ==
    LET pages2 == Append(pages, page)
        pageId == Len(pages2) - 1
    IN  [pages |-> pages2,
         index |-> InvertedIndex_add_page(index, pageId,
                                          tokenize(page.content))]

\* needle in haystack, for Python strings
contains(haystack, needle) ==
    \E i \in 1..(Len(haystack) + 1) :
        /\ i + Len(needle) - 1 <= Len(haystack)
        /\ SubSeq(haystack, i, i + Len(needle) - 1) = needle

has_exact_match(content, query) ==
    contains(to_lower(remove_punctuation(content)),
             to_lower(remove_punctuation(query)))

\* The locals of search while its token loop runs: the page list (whose
\* frequency maps the loop reads), pageMatchCount as its keys in insertion
\* order (mcKeys) and its values (mc), and pageFrequencySum (fs).
\*
\* search_results is "for pageId in results" for one token.  The order in
\* which Python iterates a set is not fixed by the language; order is a
\* sequence of all page ids giving the order taken, and the loop visits the
\* members of results in that order, from position k on.
RECURSIVE search_results(_, _, _, _, _)
search_results(st, token, results, order, k) ==
    IF k > Len(order) THEN st
    ELSE IF order[k] \notin results
         THEN search_results(st, token, results, order, k + 1)
         ELSE LET pageId == order[k]
                  fresh  == pageId \notin DOMAIN st.mc
                  mc     == IF fresh THEN (pageId :> 0) @@ st.mc ELSE st.mc
                  fs     == IF pageId \in DOMAIN st.fs THEN st.fs
                            ELSE (pageId :> 0) @@ st.fs
                  wf     == defaultdict_get(
                                st.pages[pageId + 1].wordFrequency, token)
              IN  search_results(
                      [pages  |-> [st.pages EXCEPT
                                       ![pageId + 1].wordFrequency = wf],
                       mcKeys |-> IF fresh THEN Append(st.mcKeys, pageId)
                                  ELSE st.mcKeys,
                       mc     |-> [mc EXCEPT ![pageId] = @ + 1],
                       fs     |-> [fs EXCEPT ![pageId] = @ + wf[token]]],
                      token, results, order, k + 1)

\* "for token in queryTokens", from the k-th token on
RECURSIVE search_tokens(_, _, _, _, _)
search_tokens(st, index, queryTokens, order, k) ==
    IF k > Len(queryTokens) THEN st
    ELSE search_tokens(
             search_results(st, queryTokens[k],
                            InvertedIndex_search(index, queryTokens[k]),
                            order, 1),
             index, queryTokens, order, k + 1)

\* "for i, page in enumerate(self.pages)": the list exactMatches
RECURSIVE exact_matches(_, _, _, _)
exact_matches(pages, query, i, exactMatches) ==
    IF i >= Len(pages) THEN exactMatches
    ELSE exact_matches(pages, query, i + 1,
             IF has_exact_match(pages[i + 1].content, query)
             THEN Append(exactMatches, i)
             ELSE exactMatches)

\* the ranking key without the exact-match priority
sort_key_counts_only(x, n, exactMatches, fs) == << 0 - n, 0 - fs[x] >>

\* the key of the ranking sort for page id x with match count n
sort_key(x, n, exactMatches, fs) ==
    << 0 - (IF x \in Range(exactMatches) THEN 1 ELSE 0), 0 - n, 0 - fs[x] >>

\* tuple comparison a < b
tuple_less(a, b) ==
    \E i \in 1..Len(a) :
        /\ a[i] < b[i]
        /\ \A j \in 1..(i - 1) : a[j] = b[j]

\* sorted(items, key): stable; each item is put after the items already
\* placed whose key is not greater than its own
RECURSIVE sorted_from(_, _, _, _)
sorted_from(items, key, k, acc) ==
    IF k > Len(items) THEN acc
    ELSE LET x      == items[k]
             before == SelectSeq(acc, LAMBDA y : ~tuple_less(key[x], key[y]))
             after  == SelectSeq(acc, LAMBDA y : tuple_less(key[x], key[y]))
         IN  sorted_from(items, key, k + 1, before \o <<x>> \o after)

\* key maps each item to the value of the key function on it
sorted(items, key) == sorted_from(items, key, 1, <<>>)

\* search(query) under the set iteration order `order`: the page list as
\* the call leaves it, the lines it prints (result: one record per line, in
\* order; the empty sequence stands for "No results found") and the local
\* exactMatches
SearchEngine_search(pages, index, query, order) ==
    LET queryTokens == tokenize(query)
        st == search_tokens([pages |-> pages, mcKeys |-> <<>>,
                             mc |-> <<>>, fs |-> <<>>],
                            index, queryTokens, order, 1)
        exactMatches  == exact_matches(pages, query, 0, <<>>)
        key           == [x \in Range(st.mcKeys) |->
                             sort_key(x, st.mc[x], exactMatches, st.fs)]
        sortedResults == sorted(st.mcKeys, key)
    IN  [pages  |-> st.pages,
         result |-> [i \in 1..Len(sortedResults) |->
                        LET pageId == sortedResults[i]
                        IN  [pageId       |-> pageId,
                             matchCount   |-> st.mc[pageId],
                             frequencySum |-> st.fs[pageId],
                             exact        |-> pageId \in Range(exactMatches)]],
         exactMatches |-> exactMatches]

\* ------------------------------------------------------------------------
\* Word Break
\* ------------------------------------------------------------------------
\* word_break_helper returns its list and the memo dict as the call leaves
\* it; word_break_ends is its for loop, from `end` on.  A list element is a
\* Python string: the words joined by single spaces.

RECURSIVE word_break_helper(_, _, _)
RECURSIVE word_break_ends(_, _, _, _, _)
word_break_helper(s, t, memo) ==
    IF s \in DOMAIN memo
    THEN [results |-> memo[s], memo |-> memo]
    ELSE IF s = <<>>
         THEN [results |-> << <<>> >>, memo |-> memo]
         ELSE LET r == word_break_ends(s, t, memo, 1, <<>>)
              IN  [results |-> r.results,
                   memo    |-> (s :> r.results) @@ r.memo]

\* word_break_helper's loop over range(1, len(s)): the whole of s is never
\* tried as a word
RECURSIVE word_break_ends_short(_, _, _, _, _)
word_break_ends_short(s, t, memo, end, results) ==
    IF end >= Len(s)
    THEN [results |-> results, memo |-> memo]
    ELSE LET word == SubSeq(s, 1, end)
         IN  IF Trie_search(t, word)
             THEN LET sub == word_break_helper(SubSeq(s, end + 1, Len(s)),
                                               t, memo)
                  IN  word_break_ends_short(s, t, sub.memo, end + 1,
                          results \o
                          [i \in 1..Len(sub.results) |->
                              word \o (IF sub.results[i] = <<>> THEN <<>>
                                       ELSE <<" ">> \o sub.results[i])])
             ELSE word_break_ends_short(s, t, memo, end + 1, results)

word_break_ends(s, t, memo, end, results) ==
    IF end > Len(s)
    THEN [results |-> results, memo |-> memo]
    ELSE LET word == SubSeq(s, 1, end)
         IN  IF Trie_search(t, word)
             THEN LET sub == word_break_helper(SubSeq(s, end + 1, Len(s)),
                                               t, memo)
                  IN  word_break_ends(s, t, sub.memo, end + 1,
                          results \o
                          [i \in 1..Len(sub.results) |->
                              word \o (IF sub.results[i] = <<>> THEN <<>>
                                       ELSE <<" ">> \o sub.results[i])])
             ELSE word_break_ends(s, t, memo, end + 1, results)

word_break(s, t) == word_break_helper(s, t, <<>>).results

\* query.replace(" ", "")
replace_spaces(text) == SelectSeq(text, LAMBDA c : c # " ")

\* ------------------------------------------------------------------------
\* Bounds and inputs
\* ------------------------------------------------------------------------

\* pages constructed in one run of the engine
MaxPages == 2

\* distinct words given to Trie.insert in one run of the trie
MaxInserts == 2

\* length of a word given to the trie's operations
MaxWordLen == 2

\* length of a text given to tokenize
MaxTextLen == 3

StringsOver(alphabet, n) == UNION {[1..k -> alphabet] : k \in 0..n}

\* the words and prefixes given to the trie, and the strings given to
\* word_break (long enough to hold two of the longest words)
TrieWords == StringsOver({"a", "b"}, MaxWordLen)

BreakStrings == StringsOver({"a", "b"}, MaxWordLen + 2)

\* the texts given to tokenize: letters that spell stopwords and their
\* plurals, an upper-case letter, a blank and a punctuation mark
Texts == StringsOver({"a", "s", "i", "A", " ", "."}, MaxTextLen)

\* the pages offered to the engine: [url, content]
\* "cat bs"
Content1 ==
    <<"c","a","t"," ","b","s">>

\* "bs at"
Content2 ==
    <<"b","s"," ","a","t">>

\* "The a in b!"
Content3 ==
    <<"T","h","e"," ","a"," ","i","n"," ","b","!">>

\* "as"
Content4 ==
    <<"a","s">>

\* "Cookies"
Content5 ==
    <<"C","o","o","k","i","e","s">>

Corpus ==
    { [url |-> "u1", content |-> Content1],
      [url |-> "u2", content |-> Content2],
      [url |-> "u3", content |-> Content3],
      [url |-> "u4", content |-> Content4],
      [url |-> "u5", content |-> Content5] }

\* the queries given to the engine:
\* "at bs", "at", "bs", "b", "the a in", "a", "as", "cookie"
Queries ==
    { <<"a","t"," ","b","s">>,
      <<"a","t">>,
      <<"b","s">>,
      <<"b">>,
      <<"t","h","e"," ","a"," ","i","n">>,
      <<"a">>,
      <<"a","s">>,
      <<"c","o","o","k","i","e">> }

\* the four pages of the main program, in order
\* "This is an example page with a search engine."
MainContent1 ==
    <<"T","h","i","s"," ","i","s"," ","a","n"," ","e","x","a","m","p","l","e"," ","p","a","g","e"," ","w","i","t","h"," ","a"," ","s","e","a","r","c","h"," ","e","n","g","i","n","e",".">>

\* "Another example page with algorithms and data."
MainContent2 ==
    <<"A","n","o","t","h","e","r"," ","e","x","a","m","p","l","e"," ","p","a","g","e"," ","w","i","t","h"," ","a","l","g","o","r","i","t","h","m","s"," ","a","n","d"," ","d","a","t","a",".">>

\* "The news are spreading quickly. Search engines use algorithms."
MainContent3 ==
    <<"T","h","e"," ","n","e","w","s"," ","a","r","e"," ","s","p","r","e","a","d","i","n","g"," ","q","u","i","c","k","l","y","."," ","S","e","a","r","c","h"," ","e","n","g","i","n","e","s"," ","u","s","e"," ","a","l","g","o","r","i","t","h","m","s",".">>

\* "Exact match test: example search"
MainContent4 ==
    <<"E","x","a","c","t"," ","m","a","t","c","h"," ","t","e","s","t",":"," ","e","x","a","m","p","l","e"," ","s","e","a","r","c","h">>

MainPages ==
    << [url |-> "https://example.com", content |-> MainContent1],
       [url |-> "https://example2.com", content |-> MainContent2],
       [url |-> "https://example3.com", content |-> MainContent3],
       [url |-> "https://example4.com", content |-> MainContent4] >>

\* the lines typed at the main program's prompt:
\* "algorithm", "Algorithms!", "examples", "engines", "search engine", "searchengine", "exam", "the a in", "xyz", "exit"
Q_algorithm ==
    <<"a","l","g","o","r","i","t","h","m">>

Q_exit ==
    <<"e","x","i","t">>

MainQueries ==
    { Q_algorithm,
      <<"A","l","g","o","r","i","t","h","m","s","!">>,
      <<"e","x","a","m","p","l","e","s">>,
      <<"e","n","g","i","n","e","s">>,
      <<"s","e","a","r","c","h"," ","e","n","g","i","n","e">>,
      <<"s","e","a","r","c","h","e","n","g","i","n","e">>,
      <<"e","x","a","m">>,
      <<"t","h","e"," ","a"," ","i","n">>,
      <<"x","y","z">>,
      Q_exit }

\* ------------------------------------------------------------------------
\* State
\* ------------------------------------------------------------------------

VARIABLES
    trie,      \* the shared Trie
    page,      \* the WebPage objects constructed and not yet added, oldest first
    pages,     \* engine.pages
    index,     \* engine.index.index
    pc,        \* where the caller is
    query,     \* the text the caller holds (the line read by input())
    out,       \* what the call in progress returned or printed
    inserted   \* history: every word Trie.insert was called with

vars == <<trie, page, pages, index, pc, query, out, inserted>>

NoOut == [op |-> "none", arg |-> <<>>, result |-> <<>>, exactMatches |-> <<>>]

\* the orders in which a set of page ids may be iterated
Orders(n) ==
    {o \in [1..n -> 0..(n - 1)] : \A i, j \in 1..n : o[i] = o[j] => i = j}

Init ==
    /\ trie = Trie
    /\ page = <<>>
    /\ pages = <<>>
    /\ index = <<>>
    /\ pc = "ready"
    /\ query = <<>>
    /\ out = NoOut
    /\ inserted = {}

\* ------------------------------------------------------------------------
\* The operations, called one at a time
\* ------------------------------------------------------------------------

\* p = WebPage(url, content, trie)
NewWebPage(url, content) ==
    /\ pc = "ready"
    /\ Len(pages) + Len(page) < MaxPages
    /\ LET w == WebPage(url, content, trie)
       IN  /\ page' = Append(page, w.page)
           /\ trie' = w.trie
           /\ inserted' = inserted \cup Range(tokenize(content))
    /\ UNCHANGED <<pages, index, pc, query, out>>

\* engine.add_page(p)
AddPage ==
    /\ pc = "ready"
    /\ page # <<>>
    /\ LET e == SearchEngine_add_page(pages, index, Head(page))
       IN  /\ pages' = e.pages
           /\ index' = e.index
    /\ page' = Tail(page)
    /\ UNCHANGED <<trie, pc, query, out, inserted>>

\* engine.search(q)
Search(q, order) ==
    /\ pc = "ready"
    /\ LET r == SearchEngine_search(pages, index, q, order)
       IN  /\ pages' = r.pages
           /\ out' = [op |-> "search", arg |-> q, result |-> r.result,
                      exactMatches |-> r.exactMatches]
    /\ pc' = "called"
    /\ UNCHANGED <<trie, page, index, query, inserted>>

\* trie.autocomplete(p)
Autocomplete(p) ==
    /\ pc = "ready"
    /\ out' = [op |-> "autocomplete", arg |-> p,
               result |-> Trie_autocomplete(trie, p), exactMatches |-> <<>>]
    /\ pc' = "called"
    /\ UNCHANGED <<trie, page, pages, index, query, inserted>>

\* word_break(s, trie)
WordBreak(s) ==
    /\ pc = "ready"
    /\ out' = [op |-> "word_break", arg |-> s,
               result |-> word_break(s, trie), exactMatches |-> <<>>]
    /\ pc' = "called"
    /\ UNCHANGED <<trie, page, pages, index, query, inserted>>

\* the caller takes the result and is ready for the next call
Return ==
    /\ pc = "called"
    /\ pc' = "ready"
    /\ out' = NoOut
    /\ UNCHANGED <<trie, page, pages, index, query, inserted>>

Next ==
    \/ \E c \in Corpus : NewWebPage(c.url, c.content)
    \/ AddPage
    \/ \E q \in Queries : \E order \in Orders(Len(pages)) : Search(q, order)
    \/ \E q \in Queries : Autocomplete(q)
    \/ \E q \in Queries : WordBreak(replace_spaces(q))
    \/ Return

Spec == Init /\ [][Next]_vars

\* ------------------------------------------------------------------------
\* The trie on its own
\* ------------------------------------------------------------------------

\* trie.insert(w)
Insert(w) ==
    /\ pc = "ready"
    /\ w \in inserted \/ Cardinality(inserted) < MaxInserts
    /\ trie' = Trie_insert(trie, w)
    /\ inserted' = inserted \cup {w}
    /\ UNCHANGED <<page, pages, index, pc, query, out>>

\* trie.search(w)
TrieSearch(w) ==
    /\ pc = "ready"
    /\ out' = [op |-> "trie_search", arg |-> w,
               result |-> Trie_search(trie, w), exactMatches |-> <<>>]
    /\ pc' = "called"
    /\ UNCHANGED <<trie, page, pages, index, query, inserted>>

TrieNext ==
    \/ \E w \in TrieWords : Insert(w)
    \/ \E w \in TrieWords : TrieSearch(w)
    \/ \E p \in TrieWords : Autocomplete(p)
    \/ \E s \in BreakStrings : WordBreak(s)
    \/ Return

TrieSpec == Init /\ [][TrieNext]_vars

\* ------------------------------------------------------------------------
\* The tokenizer on its own, and the ingestion of one text
\* ------------------------------------------------------------------------

TextInit ==
    /\ trie = Trie
    /\ page = <<>>
    /\ pages = <<>>
    /\ index = <<>>
    /\ pc = "ready"
    /\ query \in Texts
    /\ out = NoOut
    /\ inserted = {}

\* tokenize(query)
Tokenize ==
    /\ pc = "ready"
    /\ out' = [op |-> "tokenize", arg |-> query,
               result |-> tokenize(query), exactMatches |-> <<>>]
    /\ pc' = "called"
    /\ UNCHANGED <<trie, page, pages, index, query, inserted>>

TextNext ==
    \/ Tokenize
    \/ NewWebPage("text", query)
    \/ AddPage
    \/ Return

TextSpec == TextInit /\ [][TextNext]_vars

\* ------------------------------------------------------------------------
\* The main program
\* ------------------------------------------------------------------------

MainInit ==
    /\ trie = Trie
    /\ page = <<>>
    /\ pages = <<>>
    /\ index = <<>>
    /\ pc = "l180"
    /\ query = <<>>
    /\ out = NoOut
    /\ inserted = {}

\* lines 180-183: engine.add_page(WebPage(url, content, trie))
MainAddPage ==
    /\ pc \in {"l180", "l181", "l182", "l183"}
    /\ LET k == Len(pages) + 1
           w == WebPage(MainPages[k].url, MainPages[k].content, trie)
           e == SearchEngine_add_page(pages, index, w.page)
       IN  /\ trie' = w.trie
           /\ inserted' = inserted \cup Range(tokenize(MainPages[k].content))
           /\ pages' = e.pages
           /\ index' = e.index
    /\ pc' = CASE pc = "l180" -> "l181"
               [] pc = "l181" -> "l182"
               [] pc = "l182" -> "l183"
               [] pc = "l183" -> "l186"
    /\ UNCHANGED <<page, query, out>>

\* lines 186-188: query = input(...); "exit" in any case ends the loop
MainInput(q) ==
    /\ pc = "l186"
    /\ query' = q
    /\ pc' = IF to_lower(q) = Q_exit THEN "exit" ELSE "l189"
    /\ out' = NoOut
    /\ UNCHANGED <<trie, page, pages, index, inserted>>

\* line 189: engine.search(query)
MainSearch(order) ==
    /\ pc = "l189"
    /\ LET r == SearchEngine_search(pages, index, query, order)
       IN  /\ pages' = r.pages
           /\ out' = [op |-> "search", arg |-> query, result |-> r.result,
                      exactMatches |-> r.exactMatches]
    /\ pc' = "l190"
    /\ UNCHANGED <<trie, page, index, query, inserted>>

\* line 190: print(trie.autocomplete(query))
MainAutocomplete ==
    /\ pc = "l190"
    /\ out' = [op |-> "autocomplete", arg |-> query,
               result |-> Trie_autocomplete(trie, query),
               exactMatches |-> <<>>]
    /\ pc' = "l191"
    /\ UNCHANGED <<trie, page, pages, index, query, inserted>>

\* line 191: print(word_break(query.replace(" ", ""), trie))
MainWordBreak ==
    /\ pc = "l191"
    /\ out' = [op |-> "word_break", arg |-> replace_spaces(query),
               result |-> word_break(replace_spaces(query), trie),
               exactMatches |-> <<>>]
    /\ pc' = "l186"
    /\ UNCHANGED <<trie, page, pages, index, query, inserted>>

MainNext ==
    \/ MainAddPage
    \/ \E q \in MainQueries : MainInput(q)
    \/ \E order \in Orders(Len(pages)) : MainSearch(order)
    \/ MainAutocomplete
    \/ MainWordBreak

MainSpec == MainInit /\ [][MainNext]_vars

\* ------------------------------------------------------------------------
\* Vocabulary of the properties
\* ------------------------------------------------------------------------

\* the raw words of a text: its normalized form split at whitespace
WordsOf(text) == Range(split(to_lower(remove_punctuation(text))))

NoDuplicates(seq) == \A i, j \in DOMAIN seq : seq[i] = seq[j] => i = j

IsPrefix(p, w) == Len(p) <= Len(w) /\ SubSeq(w, 1, Len(p)) = p

PageIds == 0..(Len(pages) - 1)

\* the page ids a search listed
Listed == {out.result[i].pageId : i \in DOMAIN out.result}

Searched == pc \in {"called", "l190"} /\ out.op = "search"

RECURSIVE SumTo(_, _)
SumTo(f, n) == IF n = 0 THEN 0 ELSE f[n] + SumTo(f, n - 1)

\* the positions of the query's tokens whose postings hold page d
MatchingTokens(q, d) ==
    {k \in DOMAIN tokenize(q) : d \in InvertedIndex_search(index, tokenize(q)[k])}

\* matchCount and frequencySum of page d for query q, as the ranking rule
\* defines them: the number of query tokens (with repeats) whose postings
\* hold d, and the sum over those tokens of d's stored count of the token
MatchCountOf(q, d) == Cardinality(MatchingTokens(q, d))

FrequencySumOf(q, d) ==
    LET toks == tokenize(q)
        wf   == pages[d + 1].wordFrequency
    IN  SumTo([k \in DOMAIN toks |->
                  IF k \in MatchingTokens(q, d) /\ toks[k] \in DOMAIN wf
                  THEN wf[toks[k]] ELSE 0],
              Len(toks))

\* line a ranks strictly above line b
RanksAbove(a, b) ==
    \/ a.exact /\ ~b.exact
    \/ a.exact = b.exact /\ a.matchCount > b.matchCount
    \/ a.exact = b.exact /\ a.matchCount = b.matchCount
                         /\ a.frequencySum > b.frequencySum

\* ------------------------------------------------------------------------
\* C1  Round trip.  For every ingested document and every key t of its
\* frequency map, the trie's search(t) is true and the document's id is in
\* the inverted index's posting set of t.
\* ------------------------------------------------------------------------
\* C1: every key of an ingested document's frequency map is trie-known and
\* has the document's id in its posting set
C1_RoundTrip ==
    \A d \in PageIds :
        \A t \in DOMAIN pages[d + 1].wordFrequency :
            /\ Trie_search(trie, t)
            /\ t \in DOMAIN index
            /\ d \in index[t]

\* ------------------------------------------------------------------------
\* C2  Queries are read-only.  No call of search, autocomplete or word_break
\* changes the page list (contents and frequency maps, keys and counts),
\* the inverted index or the trie.
\* ------------------------------------------------------------------------
\* C2: a query call leaves pages, index and trie as they were
C2_QueriesReadOnly ==
    [][ (pc = "ready" /\ pc' = "called"
           /\ out'.op \in {"search", "autocomplete", "word_break"})
        => (pages' = pages /\ index' = index /\ trie' = trie) ]_vars

\* ------------------------------------------------------------------------
\* C3  Ranking order.  search lists exactly the documents with
\* matchCount > 0, each once, with their matchCount, frequencySum and
\* exact-match flag, in descending order of (exact flag, matchCount,
\* frequencySum); so a listed exact match precedes every listed document
\* that is not one, whatever their match counts.
\* ------------------------------------------------------------------------
\* C3: the listing is the matched documents, once each, in ranking order
C3_RankingOrder ==
    Searched =>
        LET r == out.result
            q == out.arg
        IN  /\ Listed = {d \in PageIds : MatchCountOf(q, d) > 0}
            /\ NoDuplicates([i \in DOMAIN r |-> r[i].pageId])
            /\ \A i \in DOMAIN r :
                   /\ r[i].matchCount = MatchCountOf(q, r[i].pageId)
                   /\ r[i].frequencySum = FrequencySumOf(q, r[i].pageId)
                   /\ r[i].exact =
                          has_exact_match(pages[r[i].pageId + 1].content, q)
            /\ \A i, j \in DOMAIN r : i < j => ~RanksAbove(r[j], r[i])
            /\ \A i, j \in DOMAIN r : r[i].exact /\ ~r[j].exact => i < j

\* an exact match with 2 token matches is listed before a document with 3
\* token matches that is not an exact match
C3_Witness ==
    /\ Searched
    /\ \E i, j \in DOMAIN out.result :
           /\ i < j
           /\ out.result[i].exact /\ out.result[i].matchCount = 2
           /\ ~out.result[j].exact /\ out.result[j].matchCount = 3

\* ------------------------------------------------------------------------
\* C4  End to end.  After the main program's four pages, search("algorithm")
\* lists exactly the two documents whose content contains "algorithms" (ids
\* 1 and 2), each with frequencySum equal to its stored count of the token
\* "algorithm".  As claimed, that count is 0 (C4_AsClaimed); in the program
\* it is 1 (C4_EndToEnd), the derived singular being stored at ingestion.
\* ------------------------------------------------------------------------
StoredCount(d, token) ==
    IF token \in DOMAIN pages[d + 1].wordFrequency
    THEN pages[d + 1].wordFrequency[token] ELSE 0

C4_Listing(count) ==
    (pc = "l190" /\ query = Q_algorithm) =>
        /\ Len(pages) = 4
        /\ Len(out.result) = 2
        /\ Listed = {1, 2}
        /\ Listed = {d \in PageIds :
                        contains(to_lower(pages[d + 1].content),
                                 Append(Q_algorithm, "s"))}
        /\ \A i \in DOMAIN out.result :
               /\ out.result[i].frequencySum =
                      StoredCount(out.result[i].pageId, Q_algorithm)
               /\ out.result[i].frequencySum = count

\* C4 as claimed: the listing of ids 1 and 2, each with frequencySum = its
\* stored count of "algorithm" = 0
C4_AsClaimed == C4_Listing(0)

\* C4 as amended: the listing of ids 1 and 2, each with frequencySum = its
\* stored count of "algorithm" = 1
C4_EndToEnd == C4_Listing(1)

\* search("algorithm") has printed two lines in the main program
C4_Witness ==
    /\ pc = "l190"
    /\ query = Q_algorithm
    /\ Len(out.result) = 2

\* ------------------------------------------------------------------------
\* C5  Singular/plural symmetry.  For a word p that is not a stopword and
\* whose derived singular s differs from it: (i) a document containing the
\* word p is listed by search(s); (ii) a document containing the word s is
\* listed by search(p).  As claimed, for every such p, and for "cookies"
\* with "cookie" (C5_AsClaimed); in the program, when s is not a stopword
\* (C5_Symmetry).
\* ------------------------------------------------------------------------
\* p is a plural form: not a stopword, and its derived singular differs
Plural(p) == p \notin stopWords /\ to_singular(p) # p

\* (i) and (ii) for the search just made, over the plurals whose derived
\* singular is not in `exempt`
C5_Both(exempt) ==
    Searched =>
        \A d \in PageIds :
            /\ \A p \in WordsOf(pages[d + 1].content) :
                   (Plural(p) /\ to_singular(p) \notin exempt
                      /\ out.arg = to_singular(p))
                       => d \in Listed
            /\ (Plural(out.arg) /\ to_singular(out.arg) \notin exempt
                  /\ to_singular(out.arg) \in WordsOf(pages[d + 1].content))
                   => d \in Listed

Q_cookie ==
    <<"c","o","o","k","i","e">>

\* C5 as claimed: (i) and (ii) for every plural p, and a document containing
\* "cookies" is listed by search("cookie")
C5_AsClaimed ==
    /\ C5_Both({})
    /\ (Searched /\ out.arg = Q_cookie) =>
           \A d \in PageIds :
               Append(Q_cookie, "s") \in WordsOf(pages[d + 1].content)
                   => d \in Listed

\* C5 as amended: (i) and (ii) for every plural p whose derived singular is
\* not a stopword
C5_Symmetry == C5_Both(stopWords)

\* search("bs") lists a document that contains "b" and not "bs"
C5_Witness ==
    /\ Searched
    /\ Plural(out.arg)
    /\ \E d \in PageIds :
           /\ to_singular(out.arg) \in WordsOf(pages[d + 1].content)
           /\ out.arg \notin WordsOf(pages[d + 1].content)
           /\ d \in Listed

\* ------------------------------------------------------------------------
\* C6  No match.  A query whose words are all stopwords, and any query for
\* which no document has matchCount > 0, prints no result line ("No results
\* found"), also when some document is an exact match of the query.
\* ------------------------------------------------------------------------
\* C6: a stopword-only query, or one matching no document, lists nothing
C6_NoMatch ==
    (/\ Searched
     /\ \/ WordsOf(out.arg) \subseteq stopWords
        \/ \A d \in PageIds : MatchCountOf(out.arg, d) = 0)
    => out.result = <<>>

\* a non-empty stopword-only query that exact-matches a document
C6_Witness ==
    /\ Searched
    /\ Cardinality(WordsOf(out.arg)) = 3
    /\ WordsOf(out.arg) \subseteq stopWords
    /\ out.exactMatches # <<>>
    /\ out.result = <<>>

\* ------------------------------------------------------------------------
\* C9  Exact-matched documents that are not listed.  As claimed: if a
\* document is an exact match of the query and is not listed, every word of
\* the query is a stopword (C9_AsClaimed).  In the program: then every word
\* of the query is a stopword or is not a whole word of that document, the
\* substring test also matching inside and across words (C9_Unranked).
\* ------------------------------------------------------------------------
Unranked == {d \in Range(out.exactMatches) : d \notin Listed}

\* C9 as claimed: an exact-matched document is left out only when every
\* word of the query is a stopword
C9_AsClaimed ==
    (Searched /\ Unranked # {}) => WordsOf(out.arg) \subseteq stopWords

\* C9 as amended: an exact-matched document is left out only when every
\* word of the query is a stopword or is not a whole word of that document
C9_Unranked ==
    Searched =>
        \A d \in Unranked :
            /\ has_exact_match(pages[d + 1].content, out.arg)
            /\ \A w \in WordsOf(out.arg) :
                   w \in stopWords \/ w \notin WordsOf(pages[d + 1].content)

\* a document exact-matched by a query that has a word that is no stopword,
\* and not listed
C9_Witness ==
    /\ Searched
    /\ Unranked # {}
    /\ ~(WordsOf(out.arg) \subseteq stopWords)

\* ------------------------------------------------------------------------
\* C7  Segmentation exactness.  word_break(s, trie) returns, each exactly
\* once and joined by single spaces, precisely the sequences of non-empty
\* trie-known words whose concatenation is s: none when there is no such
\* sequence, and the one empty segmentation for the empty string.
\* ------------------------------------------------------------------------
\* the k-th smallest member of a set of numbers
Nth(S, k) == CHOOSE x \in S : Cardinality({y \in S : y < x}) = k - 1

\* s cut after each position in cuts (a subset of 1..Len(s)-1)
PartsOf(s, cuts) ==
    LET ends == cuts \cup {Len(s)}
    IN  [k \in 1..Cardinality(ends) |->
            SubSeq(s, IF k = 1 THEN 1 ELSE Nth(ends, k - 1) + 1, Nth(ends, k))]

\* every way to write s as a sequence of non-empty words the trie knows
Segmentations(s) ==
    IF s = <<>> THEN { <<>> }
    ELSE {seg \in {PartsOf(s, cuts) : cuts \in SUBSET (1..(Len(s) - 1))} :
             \A k \in DOMAIN seg : Trie_search(trie, seg[k])}

\* " ".join(seg)
RECURSIVE Joined(_)
Joined(seg) ==
    IF seg = <<>> THEN <<>>
    ELSE IF Len(seg) = 1 THEN seg[1]
         ELSE seg[1] \o <<" ">> \o Joined(Tail(seg))

\* C7: word_break's list is exactly the segmentations of its argument
C7_Segmentation ==
    (pc = "called" /\ out.op = "word_break") =>
        /\ NoDuplicates(out.result)
        /\ Range(out.result) = {Joined(seg) : seg \in Segmentations(out.arg)}
        /\ Len(out.result) = Cardinality(Segmentations(out.arg))
        /\ \A i \in DOMAIN out.result :
               split(out.result[i]) \in Segmentations(out.arg)
        /\ out.arg = <<>> => out.result = << <<>> >>

\* a string with two segmentations, one of them into two words of which
\* the first is a proper prefix of another known word
C7_Witness ==
    /\ pc = "called"
    /\ out.op = "word_break"
    /\ Len(out.result) = 2
    /\ \E i \in DOMAIN out.result : Len(split(out.result[i])) = 2

\* ------------------------------------------------------------------------
\* C8  The trie is a set of strings.  search(w) is true iff w was inserted;
\* autocomplete(p) lists exactly the inserted strings that begin with p,
\* each once, and nothing when p is not a path of the trie; and inserting
\* an inserted token again changes the result of no search or autocomplete.
\* ------------------------------------------------------------------------
\* C8: search and autocomplete answer for the set of inserted words, and
\* inserting one of them again changes no answer
C8_TrieIsSet ==
    /\ (pc = "called" /\ out.op = "trie_search") =>
           out.result = (out.arg \in inserted)
    /\ (pc = "called" /\ out.op = "autocomplete") =>
           /\ Range(out.result) = {w \in inserted : IsPrefix(out.arg, w)}
           /\ NoDuplicates(out.result)
           /\ out.arg \notin DOMAIN trie => out.result = <<>>
    /\ \A w \in inserted :
           \A q \in TrieWords :
               /\ Trie_search(Trie_insert(trie, w), q) = Trie_search(trie, q)
               /\ Trie_autocomplete(Trie_insert(trie, w), q)
                      = Trie_autocomplete(trie, q)

\* autocomplete of an inserted prefix that begins another inserted word
C8_Witness ==
    /\ pc = "called"
    /\ out.op = "autocomplete"
    /\ Len(out.result) = 2
    /\ out.arg \in Range(out.result)

\* ------------------------------------------------------------------------
\* C10  Stopword filtering.  As claimed: tokenize returns no stopword, so
\* that after ingestion no stopword is trie-known, a key of the inverted
\* index or a key of a frequency map (C10_AsClaimed).  In the program: a
\* stopword that tokenize returns is the derived singular of the token
\* before it, which is a raw word that is no stopword; and a stopword that
\* is trie-known or a key after ingestion is the derived singular of such a
\* word of the ingested text (C10_Stopwords).
\* ------------------------------------------------------------------------
Tokenized == pc = "called" /\ out.op = "tokenize"

\* the stopwords the trie, the index or a frequency map holds
StoredStopwords ==
    {sw \in stopWords :
        \/ Trie_search(trie, sw)
        \/ sw \in DOMAIN index
        \/ \E i \in DOMAIN pages : sw \in DOMAIN pages[i].wordFrequency
        \/ \E i \in DOMAIN page : sw \in DOMAIN page[i].wordFrequency}

\* C10 as claimed: tokenize returns no stopword, and no stopword is stored
C10_AsClaimed ==
    /\ Tokenized => \A k \in DOMAIN out.result : out.result[k] \notin stopWords
    /\ StoredStopwords = {}

\* C10 as amended: a stopword returned or stored is the derived singular of
\* a raw word of the text that is no stopword
C10_Stopwords ==
    /\ Tokenized =>
           \A k \in DOMAIN out.result :
               out.result[k] \in stopWords =>
                   /\ k > 1
                   /\ out.result[k - 1] \in WordsOf(query) \ stopWords
                   /\ out.result[k] = to_singular(out.result[k - 1])
    /\ \A sw \in StoredStopwords :
           \E w \in WordsOf(query) \ stopWords : to_singular(w) = sw

\* tokenize returned a stopword for a text that has been ingested, and the
\* index holds it
C10_Witness ==
    /\ Tokenized
    /\ \E k \in DOMAIN out.result :
           out.result[k] \in stopWords /\ out.result[k] \in DOMAIN index
    /\ pages # <<>>

=============================================================================
